---- MODULE Spec2Model ----
(***************************************************************************)
(* Model of the lending-pool operator scripts: the four operation scripts  *)
(* (supply, borrow, repay, withdraw) and the diagnostic scripts            *)
(* (check-balance, check-pool-config, list-pool-reserves,                  *)
(* check-pool-pause-status).  One run of one script is one behaviour: the  *)
(* process environment and the chain state are fixed in Init, every await  *)
(* of the script is one action.                                            *)
(*                                                                         *)
(* Strings the scripts parse or compare are sequences of one-character     *)
(* strings; an address is a one-element sequence naming the variable that  *)
(* holds it, so that two variables never hold the same address.            *)
(***************************************************************************)
EXTENDS Integers, Sequences, FiniteSets, TLC

\* ------------------------------------------------------------------ bounds
\* Decimals of the token and of the fixed-point ratios (18 in the scripts;
\* one decimal digit is enough to write 1.5 and keeps 1000000.0 in range).
Decimals == 1
\* Largest number of configured accounts ethers.getSigners() may return.
MaxSigners == 2
\* Largest wallet / deposited / debt quantity a read returns, in whole tokens.
MaxTokens == 1

\* ------------------------------------------------------- program constants
\* ethers.constants.MaxUint256, the full-amount sentinel (2^256 - 1 on chain;
\* here the largest representable integer, larger than every other amount).
MaxUint256 == 2147483647

\* ----------------------------------------------------------------- strings
Undefined == <<"undefined">>

Digits == {"0", "1", "2", "3", "4", "5", "6", "7", "8", "9"}

DigitVal(c) ==
  CASE c = "0" -> 0 [] c = "1" -> 1 [] c = "2" -> 2 [] c = "3" -> 3
    [] c = "4" -> 4 [] c = "5" -> 5 [] c = "6" -> 6 [] c = "7" -> 7
    [] c = "8" -> 8 [] c = "9" -> 9

\* JavaScript truthiness of a string-or-undefined value.
Falsy(v) == v = Undefined \/ v = <<>>

\* JavaScript a || b.
Or(a, b) == IF Falsy(a) THEN b ELSE a

RECURSIVE Pow10(_)
Pow10(n) == IF n = 0 THEN 1 ELSE 10 * Pow10(n - 1)

\* BigNumber.from of a string of decimal digits.
RECURSIVE DecValue(_)
DecValue(s) ==
  IF s = <<>> THEN 0
  ELSE 10 * DecValue(SubSeq(s, 1, Len(s) - 1)) + DigitVal(s[Len(s)])

DotPositions(s) == {i \in 1..Len(s) : s[i] = "."}

RECURSIVE TrimZeros(_)
TrimZeros(s) ==
  IF s # <<>> /\ s[Len(s)] = "0" THEN TrimZeros(SubSeq(s, 1, Len(s) - 1)) ELSE s

RECURSIVE PadZeros(_, _)
PadZeros(s, n) == IF Len(s) < n THEN PadZeros(Append(s, "0"), n) ELSE s

\* JavaScript parseInt(s): the value of the leading digits, NaN (-1 here) when
\* there is none.
RECURSIVE LeadingDigits(_)
LeadingDigits(s) ==
  IF s = <<>> \/ Head(s) \notin Digits THEN <<>>
  ELSE <<Head(s)>> \o LeadingDigits(Tail(s))

parseInt(s) == IF LeadingDigits(s) = <<>> THEN -1 ELSE DecValue(LeadingDigits(s))

\* ethers parseUnits(value, decimals): [ok |-> FALSE] when it throws.
parseUnits(value, decimals) ==
  IF value = <<>> \/ \E i \in 1..Len(value) : value[i] \notin Digits \cup {"."}
    THEN [ok |-> FALSE, wei |-> 0]
  ELSE IF value = <<".">> \/ Cardinality(DotPositions(value)) > 1
    THEN [ok |-> FALSE, wei |-> 0]
  ELSE
    LET dot      == IF DotPositions(value) = {} THEN Len(value) + 1
                    ELSE CHOOSE i \in DotPositions(value) : TRUE
        comps0   == SubSeq(value, 1, dot - 1)
        comps1   == SubSeq(value, dot + 1, Len(value))
        whole    == IF comps0 = <<>> THEN <<"0">> ELSE comps0
        fraction == TrimZeros(IF comps1 = <<>> THEN <<"0">> ELSE comps1)
    IN IF Len(fraction) > decimals
         THEN [ok |-> FALSE, wei |-> 0]
         ELSE [ok  |-> TRUE,
               wei |-> DecValue(whole) * Pow10(decimals)
                       + DecValue(PadZeros(fraction, decimals))]

\* ------------------------------------------------------------- environment
Roles == {"LENDING_POOL", "DATA_PROVIDER", "TOKEN"}

Generic(role) ==
  CASE role = "LENDING_POOL"  -> "LENDING_POOL_ADDRESS"
    [] role = "DATA_PROVIDER" -> "DATA_PROVIDER_ADDRESS"
    [] role = "TOKEN"         -> "TOKEN_ADDRESS"

Local(role) ==
  CASE role = "LENDING_POOL"  -> "LOCAL_LENDING_POOL_ADDRESS"
    [] role = "DATA_PROVIDER" -> "LOCAL_DATA_PROVIDER_ADDRESS"
    [] role = "TOKEN"         -> "LOCAL_TOKEN_ADDRESS"

Sepolia(role) ==
  CASE role = "LENDING_POOL"  -> "SEPOLIA_LENDING_POOL_ADDRESS"
    [] role = "DATA_PROVIDER" -> "SEPOLIA_DATA_PROVIDER_ADDRESS"
    [] role = "TOKEN"         -> "SEPOLIA_TOKEN_ADDRESS"

AddressVars == {Generic(r) : r \in Roles} \cup {Local(r) : r \in Roles}
               \cup {Sepolia(r) : r \in Roles}

AmountVars == {"TOKEN_SUPPLY_AMOUNT", "TOKEN_BORROW_AMOUNT",
               "TOKEN_REPAY_AMOUNT", "TOKEN_WITHDRAW_AMOUNT"}

EnvVars == {"NETWORK", "INTEREST_RATE_MODE"} \cup AddressVars \cup AmountVars

\* The address a set address variable holds.
AddressIn(var) == <<var>>

OpScripts   == {"supply", "borrow", "repay", "withdraw"}
DiagScripts == {"check-balance", "check-pool-config", "list-pool-reserves",
                "check-pool-pause-status"}
Scripts     == OpScripts \cup DiagScripts

\* script, env        the script that runs and its process environment
\* paused, word       the pool's paused() flag and the reserve's configuration
\*                    word, as the set of the bit positions that are 1
\* pc                 the await the run is suspended at
\* config             what loadConfig() returned
\* userBalance        the wallet balance read first (userBalance / initialBalance)
\* accountDataBefore  getUserAccountData() before the action (repay, withdraw)
\* amountWei          supplyAmountWei / borrowAmountWei / repayAmountWei / withdrawAmountWei
\* calls              the state-changing calls sent to the network, in order
\* pending            the transaction whose wait() is outstanding
\* hfDisplay          the health-factor lines printed
\* out                the other messages printed
\* timeAdvanced       evm_increaseTime / evm_mine were sent
\* exitCode, failure  process.exit status and the error thrown or reported
\* aTokenZero         the reserve's aTokenAddress is the zero address
\* contractCalled     a contract method has been called (read or write)
\* isPoolPaused       the local of check-pool-config and list-pool-reserves
\* decoded            the Active / Frozen lines printed from a decoded word
\* remaining          reserves the list-pool-reserves loop has still to visit
\* userReserve        getUserReserveData() of the repay script's debt block
\* reserves           the reserve list check-balance collected
\* balances           what the check-balance loop got for each reserve so far
\* accountData        getUserAccountData() of the borrow script's health block
\* nothingToDo        whether, when the run passes its pre-flight point, the user
\*                    has nothing to act on: no debt of the selected rate mode
\*                    (repay), no collateral or no capacity (borrow), nothing
\*                    deposited (withdraw)
\* report             the health lines of the final summary after its snapshot
\* stale              another operation has settled on the user's position
\*                    since the run's pre-flight read
VARIABLES script, env, paused, word, pc, config, userBalance, accountDataBefore,
          amountWei, calls, pending, hfDisplay, out, timeAdvanced, exitCode, failure,
          aTokenZero, contractCalled, isPoolPaused, decoded, remaining,
          userReserve, reserves, balances, accountData, nothingToDo, report, stale

vars == <<script, env, paused, word, pc, config, userBalance, accountDataBefore,
          amountWei, calls, pending, hfDisplay, out, timeAdvanced, exitCode, failure,
          aTokenZero, contractCalled, isPoolPaused, decoded, remaining,
          userReserve, reserves, balances, accountData, nothingToDo, report, stale>>

\* What a run is given and never assigns: the script, its environment, the chain.
inputs == <<script, env, paused, word, aTokenZero>>

\* The locals of the diagnostic scripts.
diagVars == <<isPoolPaused, decoded, remaining, reserves, balances>>

\* -------------------------------------------------------------- resolution
\* A test that takes every network but mainnet for a local one.
isLocalNetworkNotMainnet(e) ==
  LET network == Or(e["NETWORK"], <<"hardhat">>)
  IN network # <<"mainnet">>

isLocalNetwork(e) ==
  LET network == Or(e["NETWORK"], <<"hardhat">>)
  IN network = <<"hardhat">> \/ network = <<"localhost">>

\* One address selection: isLocal ? (LOCAL_x || x) : (SEPOLIA_x || x).
SelectAddress(e, isLocal, role) ==
  IF isLocal THEN Or(e[Local(role)], e[Generic(role)])
             ELSE Or(e[Sepolia(role)], e[Generic(role)])

AmountVar(s) ==
  CASE s = "supply"   -> "TOKEN_SUPPLY_AMOUNT"
    [] s = "borrow"   -> "TOKEN_BORROW_AMOUNT"
    [] s = "repay"    -> "TOKEN_REPAY_AMOUNT"
    [] s = "withdraw" -> "TOKEN_WITHDRAW_AMOUNT"

AmountDefault(s) ==
  CASE s = "supply"   -> <<"1", "0", "0">>
    [] s = "borrow"   -> <<"1", "0", "0">>
    [] s = "repay"    -> <<"0">>
    [] s = "withdraw" -> <<"0">>

\* kind, names   the error and the variable names its message spells out
\* step          the await the error was raised at
\* message, raw  error.message, and the text printed after 'Error:'
\* hints         the error-code lines printed for it
NoFailure == [kind |-> "none", names |-> {}, step |-> "none",
              message |-> <<>>, raw |-> <<>>, hints |-> {}]

NoConfig == [loaded |-> FALSE]

\* loadConfig() of the four operation scripts: the Config it returns, or the
\* Error it throws (the variable names its message spells out).
loadConfig(s, e) ==
  LET network             == Or(e["NETWORK"], <<"localhost">>)
      isLocal             == network = <<"hardhat">> \/ network = <<"localhost">>
      tokenAddress        == SelectAddress(e, isLocal, "TOKEN")
      lendingPoolAddress  == SelectAddress(e, isLocal, "LENDING_POOL")
      dataProviderAddress == SelectAddress(e, isLocal, "DATA_PROVIDER")
      prefix(role)        == IF isLocal THEN Local(role) ELSE Sepolia(role)
  IN IF Falsy(lendingPoolAddress)
       THEN [ok |-> FALSE,
             error |-> [kind  |-> "MissingConfiguration",
                        names |-> {prefix("LENDING_POOL"), Generic("LENDING_POOL")}]]
     ELSE IF Falsy(tokenAddress)
       THEN [ok |-> FALSE,
             error |-> [kind  |-> "MissingConfiguration",
                        names |-> {prefix("TOKEN"), Generic("TOKEN")}]]
     ELSE [ok |-> TRUE,
           config |-> [loaded              |-> TRUE,
                       network             |-> network,
                       lendingPoolAddress  |-> lendingPoolAddress,
                       dataProviderAddress |-> Or(dataProviderAddress, <<>>),
                       tokenAddress        |-> tokenAddress,
                       decimals            |-> Decimals,
                       amount              |-> Or(e[AmountVar(s)], AmountDefault(s)),
                       interestRateMode    |-> parseInt(Or(e["INTEREST_RATE_MODE"], <<"2">>))]]


\* ------------------------------------------------------------------ inputs
Networks == {Undefined, <<"hardhat">>, <<"localhost">>, <<"sepolia">>}

\* What an amount variable may hold: unset, empty, zero in two spellings,
\* one token, and text that is not a number.
AmountInputs == {Undefined, <<>>, <<"0">>, <<"0", ".", "0">>, <<"1">>, <<"x">>}

RateModeInputs == {Undefined, <<"1">>, <<"2">>}

\* What a role's three variables may hold: all unset; only the generic one;
\* the prefixed ones empty and the generic one set; all three set.
RolePatterns == {"none", "generic", "emptyPrefixed", "all"}

PatternValue(pattern, role, var) ==
  CASE pattern = "none"          -> Undefined
    [] pattern = "generic"       -> IF var = Generic(role) THEN AddressIn(var) ELSE Undefined
    [] pattern = "emptyPrefixed" -> IF var = Generic(role) THEN AddressIn(var) ELSE <<>>
    [] pattern = "all"           -> AddressIn(var)

RoleOf(var) == CHOOSE r \in Roles : var \in {Generic(r), Local(r), Sepolia(r)}

MakeEnv(s, network, patterns, amount, rateMode) ==
  [v \in EnvVars |->
     IF v = "NETWORK" THEN network
     ELSE IF v = "INTEREST_RATE_MODE" THEN rateMode
     ELSE IF v \in AmountVars
       THEN (IF s \in OpScripts /\ v = AmountVar(s) THEN amount ELSE Undefined)
     ELSE PatternValue(patterns[RoleOf(v)], RoleOf(v), v)]

\* Reserve configuration words: the bits that are 1.  Bits 56 and 57 are the
\* active and frozen flags; 0, 55 and 58 are neighbours that must not matter.
WordBits == {0, 55, 56, 57, 58}

\* Quantities a balance or debt read may return, in wei.
WeiValues == {k * Pow10(Decimals) : k \in 0..MaxTokens}

\* Health factors a getUserAccountData() read may return (fixed point).
InfiniteThreshold == parseUnits(<<"1", "0", "0", "0", "0", "0", "0">>, Decimals).wei

HealthFactors == {parseUnits(<<"1", ".", "4">>, Decimals).wei,
                  parseUnits(<<"1", ".", "5">>, Decimals).wei,
                  parseUnits(<<"2">>, Decimals).wei,
                  InfiniteThreshold - 1, InfiniteThreshold, InfiniteThreshold + 1,
                  MaxUint256}

NoAccountData == [totalDebtETH |-> 0, healthFactor |-> 0]

NoBorrowAccountData ==
  [read |-> FALSE, totalCollateralETH |-> 0, availableBorrowsETH |-> 0,
   totalDebtETH |-> 0, healthFactor |-> 0]

NoUserReserve == [read |-> FALSE, currentStableDebt |-> 0, currentVariableDebt |-> 0]

\* The environments of the runs that are followed to their end: the required
\* roles resolve or one of them is missing, the data provider is set or not.
RunPatterns ==
  {[LENDING_POOL |-> "all", TOKEN |-> "all", DATA_PROVIDER |-> dp] :
      dp \in {"none", "all"}}
  \cup {[LENDING_POOL |-> "none", TOKEN |-> "all", DATA_PROVIDER |-> "all"],
        [LENDING_POOL |-> "all", TOKEN |-> "none", DATA_PROVIDER |-> "all"]}

\* The pool an operation script runs against: in order, paused with an active
\* reserve, inactive, frozen, and ready.
OpChainStates == {[paused |-> TRUE,  word |-> {56}],
                  [paused |-> FALSE, word |-> {}],
                  [paused |-> FALSE, word |-> {56, 57}],
                  [paused |-> FALSE, word |-> {0, 56}]}

InitRun ==
  /\ pc = "start"
  /\ config = NoConfig
  /\ userBalance = 0
  /\ accountDataBefore = NoAccountData
  /\ amountWei = 0
  /\ userReserve = NoUserReserve
  /\ accountData = NoBorrowAccountData
  /\ nothingToDo = "unknown"
  /\ report = {}
  /\ stale = FALSE
  /\ reserves = <<>>
  /\ balances = <<>>
  /\ calls = <<>>
  /\ pending = "none"
  /\ hfDisplay = {}
  /\ out = {}
  /\ timeAdvanced = FALSE
  /\ exitCode = -1
  /\ failure = NoFailure
  /\ contractCalled = FALSE
  /\ isPoolPaused = FALSE
  /\ decoded = {}
  /\ remaining = 0

\* The inputs of the runs of the operation scripts.  Every combination of an
\* unset or live NETWORK with the address patterns, the amounts, the rate
\* modes 1 and 2 and the pools; the remaining NETWORK values and a rate mode
\* that is neither 1 nor 2 with one token against the ready pool.  Only the
\* supply runs meet an inactive or a frozen reserve: the other scripts send
\* their call whatever the reserve's flags are.
ReadyChain == [paused |-> FALSE, word |-> {0, 56}]

DataProviderPatterns ==
  {[LENDING_POOL |-> "all", TOKEN |-> "all", DATA_PROVIDER |-> dp] :
      dp \in {"none", "all"}}

OpInputs ==
  [network : {Undefined, <<"sepolia">>}, patterns : RunPatterns,
   amount : AmountInputs, rateMode : RateModeInputs, chain : OpChainStates]
  \cup [network : Networks, patterns : DataProviderPatterns,
        amount : {<<"1">>}, rateMode : {Undefined}, chain : {ReadyChain}]
  \cup [network : {Undefined}, patterns : DataProviderPatterns,
        amount : {<<"1">>}, rateMode : {<<"3">>}, chain : {ReadyChain}]

InitOp ==
  /\ script \in OpScripts
  /\ \E i \in OpInputs :
       /\ script \in {"supply", "withdraw"} => i.rateMode = Undefined
       /\ script # "supply" => (56 \in i.chain.word /\ 57 \notin i.chain.word)
       /\ env = MakeEnv(script, i.network, i.patterns, i.amount, i.rateMode)
       /\ paused = i.chain.paused
       /\ word = i.chain.word
  /\ aTokenZero = FALSE
  /\ InitRun


\* --------------------------------------------------- operation scripts: run
\* An error that reaches main().catch: the message is printed, process.exit(1).
Throw(kind, names) ==
  /\ pc' = "done"
  /\ exitCode' = 1
  /\ failure' = [kind |-> kind, names |-> names, step |-> pc,
                  message |-> <<>>, raw |-> <<>>, hints |-> {}]

\* A return from main(): main().then calls process.exit(0).
Return ==
  /\ pc' = "done"
  /\ exitCode' = 0

\* const config = loadConfig();
LoadConfig ==
  /\ pc = "start"
  /\ UNCHANGED contractCalled
  /\ script \in OpScripts
  /\ LET r == loadConfig(script, env)
     IN IF r.ok
          THEN /\ config' = r.config
               /\ pc' = "signers"
               /\ UNCHANGED <<exitCode, failure>>
          ELSE /\ Throw(r.error.kind, r.error.names)
               /\ UNCHANGED config
  /\ UNCHANGED <<inputs, diagVars, userBalance, accountDataBefore,
                 amountWei, calls, pending, hfDisplay, out, timeAdvanced>>
  /\ UNCHANGED userReserve
  /\ UNCHANGED <<accountData, nothingToDo, report, stale>>

\* Network-aware account selection, then the two getContractAt.
GetSigners ==
  /\ pc = "signers"
  /\ UNCHANGED contractCalled
  /\ script \in OpScripts
  /\ \E n \in 0..MaxSigners :
       LET isLocal == isLocalNetwork(env)
       IN IF (isLocal /\ n < 2) \/ (~isLocal /\ n = 0)
            THEN Throw("NoAccounts", {})
            ELSE /\ pc' = "balance"
                 /\ UNCHANGED <<exitCode, failure>>
  /\ UNCHANGED <<inputs, diagVars, config, userBalance, accountDataBefore,
                 amountWei, calls, pending, hfDisplay, out, timeAdvanced>>
  /\ UNCHANGED userReserve
  /\ UNCHANGED <<accountData, nothingToDo, report, stale>>

\* supply: userBalance read, supplyAmountWei parsed, the balance test.
SupplyCheckBalance ==
  /\ pc = "balance"
  /\ contractCalled' = TRUE
  /\ script = "supply"
  /\ \/ /\ Throw("ReadFailed", {})
        /\ UNCHANGED <<userBalance, amountWei, out>>
     \/ \E b \in WeiValues :
          LET supplyAmountWei == parseUnits(config.amount, config.decimals)
          IN /\ userBalance' = b
             /\ IF ~supplyAmountWei.ok
                  THEN /\ Throw("ParseError", {})
                       /\ UNCHANGED <<amountWei, out>>
                  ELSE /\ amountWei' = supplyAmountWei.wei
                       /\ IF b >= supplyAmountWei.wei
                            THEN /\ pc' = "approve"
                                 /\ UNCHANGED out
                            ELSE /\ pc' = "time"
                                 /\ out' = out \cup {"Insufficient balance"}
                       /\ UNCHANGED <<exitCode, failure>>
  /\ UNCHANGED <<inputs, diagVars, config, accountDataBefore,
                 calls, pending, hfDisplay, timeAdvanced>>
  /\ UNCHANGED userReserve
  /\ UNCHANGED <<accountData, nothingToDo, report, stale>>

\* borrow: borrowAmountWei = parseUnits(...), the statement before the try.
BorrowResolve ==
  LET borrowAmountWei == parseUnits(config.amount, config.decimals)
  IN IF borrowAmountWei.ok
       THEN /\ amountWei' = borrowAmountWei.wei
            /\ pc' = "action"
            /\ UNCHANGED <<exitCode, failure>>
       ELSE /\ Throw("ParseError", {})
            /\ UNCHANGED amountWei

\* borrow, repay, withdraw: initialBalance read.
InitialState ==
  /\ pc = "balance"
  /\ contractCalled' = TRUE
  /\ script \in {"borrow", "repay", "withdraw"}
  /\ \/ /\ Throw("ReadFailed", {})
        /\ UNCHANGED <<userBalance, amountWei>>
     \/ \E b \in WeiValues :
          /\ userBalance' = b
          /\ IF script = "withdraw"
               THEN /\ pc' = "reserve"
                    /\ UNCHANGED <<amountWei, exitCode, failure>>
             ELSE IF config.dataProviderAddress # <<>>
               THEN /\ pc' = "precheck"
                    /\ UNCHANGED <<amountWei, exitCode, failure>>
             ELSE IF script = "repay"
               THEN /\ pc' = "health"
                    /\ UNCHANGED <<amountWei, exitCode, failure>>
             ELSE BorrowResolve
  /\ IF script \in {"borrow", "repay"} /\ config.dataProviderAddress = <<>>
       THEN nothingToDo' \in {"yes", "no"}
       ELSE UNCHANGED nothingToDo
  /\ UNCHANGED <<inputs, diagVars, config, accountDataBefore,
                 calls, pending, hfDisplay, out, timeAdvanced>>
  /\ UNCHANGED userReserve
  /\ UNCHANGED <<accountData, report, stale>>


\* The health-factor line of the repay and withdraw scripts.
HealthFactorForm(hf) == IF hf > InfiniteThreshold THEN "infinite" ELSE "numeric"

HealthLine(site, data, form) ==
  [site |-> site, healthFactor |-> data.healthFactor,
   totalDebtETH |-> data.totalDebtETH, form |-> form]

\* What getUserAccountData() may return: without debt the pool reports the
\* health factor uint256(-1); with debt, any finite value.
AccountDataValues ==
  {[totalDebtETH |-> 0, healthFactor |-> MaxUint256]}
  \cup {[totalDebtETH |-> 1, healthFactor |-> hf] : hf \in HealthFactors \ {MaxUint256}}

\* The account-health block also stopping on an unconstrained health factor.
BorrowPrecheckHealthGate ==
  /\ pc = "precheck"
  /\ contractCalled' = TRUE
  /\ script = "borrow"
  /\ \/ /\ out' = out \cup {"Could not fetch account data"}
        /\ BorrowResolve
        /\ nothingToDo' \in {"yes", "no"}
        /\ UNCHANGED <<hfDisplay, accountData>>
     \/ \E data \in AccountDataValues, totalCollateralETH \in {0, 1},
           availableBorrowsETH \in {0, 1} :
          /\ accountData' = [read                |-> TRUE,
                             totalCollateralETH  |-> totalCollateralETH,
                             availableBorrowsETH |-> availableBorrowsETH,
                             totalDebtETH        |-> data.totalDebtETH,
                             healthFactor        |-> data.healthFactor]
          /\ nothingToDo' = IF totalCollateralETH = 0 \/ availableBorrowsETH = 0
                              THEN "yes" ELSE "no"
          /\ hfDisplay' = hfDisplay \cup {HealthLine("borrow-before", data, "numeric")}
          /\ IF totalCollateralETH = 0
               THEN /\ out' = out \cup {"No collateral supplied"}
                    /\ Return
                    /\ UNCHANGED <<amountWei, failure>>
             ELSE IF availableBorrowsETH = 0 \/ data.healthFactor >= InfiniteThreshold
               THEN /\ out' = out \cup {"No borrowing capacity"}
                    /\ Return
                    /\ UNCHANGED <<amountWei, failure>>
             ELSE /\ BorrowResolve
                  /\ UNCHANGED out
  /\ UNCHANGED <<inputs, diagVars, config, userBalance, accountDataBefore,
                 calls, pending, timeAdvanced>>
  /\ UNCHANGED userReserve
  /\ UNCHANGED <<report, stale>>

\* borrow: the account-health block, if (config.dataProviderAddress) try {...}.
BorrowPrecheck ==
  /\ pc = "precheck"
  /\ contractCalled' = TRUE
  /\ script = "borrow"
  /\ \/ /\ out' = out \cup {"Could not fetch account data"}
        /\ BorrowResolve
        /\ nothingToDo' \in {"yes", "no"}
        /\ UNCHANGED <<hfDisplay, accountData>>
     \/ \E data \in AccountDataValues, totalCollateralETH \in {0, 1},
           availableBorrowsETH \in {0, 1} :
          /\ accountData' = [read                |-> TRUE,
                             totalCollateralETH  |-> totalCollateralETH,
                             availableBorrowsETH |-> availableBorrowsETH,
                             totalDebtETH        |-> data.totalDebtETH,
                             healthFactor        |-> data.healthFactor]
          /\ nothingToDo' = IF totalCollateralETH = 0 \/ availableBorrowsETH = 0
                              THEN "yes" ELSE "no"
          /\ hfDisplay' = hfDisplay \cup {HealthLine("borrow-before", data, "numeric")}
          /\ IF totalCollateralETH = 0
               THEN /\ out' = out \cup {"No collateral supplied"}
                    /\ Return
                    /\ UNCHANGED <<amountWei, failure>>
             ELSE IF availableBorrowsETH = 0
               THEN /\ out' = out \cup {"No borrowing capacity"}
                    /\ Return
                    /\ UNCHANGED <<amountWei, failure>>
             ELSE /\ BorrowResolve
                  /\ UNCHANGED out
  /\ UNCHANGED <<inputs, diagVars, config, userBalance, accountDataBefore,
                 calls, pending, timeAdvanced>>
  /\ UNCHANGED userReserve
  /\ UNCHANGED <<report, stale>>

\* repay: the current-debt block, if (config.dataProviderAddress) try {...}.
RepayPrecheck ==
  /\ pc = "precheck"
  /\ contractCalled' = TRUE
  /\ script = "repay"
  /\ \/ /\ out' = out \cup {"Could not fetch debt data"}
        /\ pc' = "health"
        /\ nothingToDo' \in {"yes", "no"}
        /\ UNCHANGED <<userReserve, exitCode, failure>>
     \/ \E currentStableDebt \in WeiValues, currentVariableDebt \in WeiValues :
          LET totalDebt  == currentStableDebt + currentVariableDebt
              targetDebt == IF config.interestRateMode = 1
                              THEN currentStableDebt ELSE currentVariableDebt
          IN /\ userReserve' = [read                |-> TRUE,
                                currentStableDebt   |-> currentStableDebt,
                                currentVariableDebt |-> currentVariableDebt]
             /\ nothingToDo' = IF targetDebt = 0 THEN "yes" ELSE "no"
             /\ IF totalDebt = 0
                  THEN /\ out' = out \cup {"No debt to repay"}
                       /\ Return
                       /\ UNCHANGED failure
                ELSE IF targetDebt = 0
                  THEN /\ out' = out \cup {"No debt of this rate mode"}
                       /\ Return
                       /\ UNCHANGED failure
                ELSE /\ pc' = "health"
                     /\ UNCHANGED <<out, exitCode, failure>>
  /\ UNCHANGED <<inputs, diagVars, config, userBalance, accountDataBefore,
                 amountWei, calls, pending, hfDisplay, timeAdvanced>>
  /\ UNCHANGED <<accountData, report, stale>>

\* withdraw: getReserveData, the aToken balance, the nothing-deposited return.
WithdrawReserve ==
  /\ pc = "reserve"
  /\ contractCalled' = TRUE
  /\ script = "withdraw"
  /\ \/ /\ Throw("ReadFailed", {})
        /\ UNCHANGED <<out, nothingToDo>>
     \/ \E aTokenBalance \in WeiValues :
          /\ nothingToDo' = IF aTokenBalance = 0 THEN "yes" ELSE "no"
          /\ IF aTokenBalance = 0
               THEN /\ out' = out \cup {"No tokens deposited"}
                    /\ Return
                    /\ UNCHANGED failure
               ELSE /\ pc' = IF config.dataProviderAddress # <<>>
                                THEN "precheck" ELSE "health"
                    /\ UNCHANGED <<out, exitCode, failure>>
  /\ UNCHANGED <<inputs, diagVars, config, userBalance, accountDataBefore,
                 amountWei, calls, pending, hfDisplay, timeAdvanced>>
  /\ UNCHANGED userReserve
  /\ UNCHANGED <<accountData, report, stale>>

\* withdraw: the current-position block, if (config.dataProviderAddress) try {...}.
WithdrawPosition ==
  /\ pc = "precheck"
  /\ contractCalled' = TRUE
  /\ script = "withdraw"
  /\ \/ out' = out \cup {"Could not fetch position data"}
     \/ \E currentStableDebt \in WeiValues, currentVariableDebt \in WeiValues :
          out' = IF currentStableDebt + currentVariableDebt > 0
                   THEN out \cup {"Outstanding debt warning"} ELSE out
  /\ pc' = "health"
  /\ UNCHANGED <<inputs, diagVars, config, userBalance, accountDataBefore,
                 amountWei, calls, pending, hfDisplay, timeAdvanced, exitCode, failure>>
  /\ UNCHANGED userReserve
  /\ UNCHANGED <<accountData, nothingToDo, report, stale>>

\* repay, withdraw: the amount passed to the call ('0' or '' means all).
ResolveFullAmount(amount, decimals) ==
  IF amount = <<"0">> \/ amount = <<>>
    THEN [ok |-> TRUE, wei |-> MaxUint256]
    ELSE parseUnits(amount, decimals)

\* repay, withdraw: accountDataBefore, its health-factor line, the amount.
HealthBefore ==
  /\ pc = "health"
  /\ contractCalled' = TRUE
  /\ script \in {"repay", "withdraw"}
  /\ \/ /\ Throw("ReadFailed", {})
        /\ UNCHANGED <<accountDataBefore, hfDisplay, amountWei>>
     \/ \E data \in AccountDataValues :
          LET hfBefore == data.healthFactor
              resolved == ResolveFullAmount(config.amount, config.decimals)
          IN /\ accountDataBefore' = data
             /\ hfDisplay' = hfDisplay \cup
                  {HealthLine(IF script = "repay" THEN "repay-before" ELSE "withdraw-before",
                              data, HealthFactorForm(hfBefore))}
             /\ IF resolved.ok
                  THEN /\ amountWei' = resolved.wei
                       /\ pc' = IF script = "repay" THEN "approve" ELSE "action"
                       /\ UNCHANGED <<exitCode, failure>>
                  ELSE /\ Throw("ParseError", {})
                       /\ UNCHANGED amountWei
  /\ UNCHANGED <<inputs, diagVars, config, userBalance,
                 calls, pending, out, timeAdvanced>>
  /\ UNCHANGED userReserve
  /\ UNCHANGED <<accountData, nothingToDo, report, stale>>


\* ------------------------------------------------- operation scripts: calls
ActionFn(s) ==
  CASE s = "supply"   -> "deposit"
    [] s = "borrow"   -> "borrow"
    [] s = "repay"    -> "repay"
    [] s = "withdraw" -> "withdraw"

\* The label printed for the rate mode of a borrow or repay call.
RateModeLabel(interestRateMode) ==
  IF interestRateMode = 1 THEN "Stable" ELSE "Variable"

\* String.prototype.includes on texts held as sequences of characters.
includes(s, t) ==
  \E i \in 0..(Len(s) - Len(t)) : SubSeq(s, i + 1, i + Len(t)) = t

\* The error-code lines of the three catch blocks, each an if / else-if chain.
BorrowErrorHint(message) ==
  IF includes(message, <<"1">>) THEN {"Error code 1"}
  ELSE IF includes(message, <<"3">>) THEN {"Error code 3"}
  ELSE IF includes(message, <<"1", "1">>) THEN {"Error code 11"}
  ELSE IF includes(message, <<"6", "4">>) THEN {"Error code 64"}
  ELSE {}

RepayErrorHint(message) ==
  IF includes(message, <<"5">>) THEN {"Error code 5"}
  ELSE IF includes(message, <<"1", "4">>) THEN {"Error code 14"}
  ELSE IF includes(message, <<"1", "5">>) THEN {"Error code 15"}
  ELSE {}

WithdrawErrorHint(message) ==
  IF includes(message, <<"3", "2">>) THEN {"Error code 32"}
  ELSE IF includes(message, <<"3", "5">>) THEN {"Error code 35"}
  ELSE IF includes(message, <<"3", "3">>) THEN {"Error code 33"}
  ELSE {}

ErrorHint(s, message) ==
  CASE s = "borrow"   -> BorrowErrorHint(message)
    [] s = "repay"    -> RepayErrorHint(message)
    [] s = "withdraw" -> WithdrawErrorHint(message)

\* The codes each catch block looks for.
ErrorCodes(s) ==
  CASE s = "borrow"   -> {<<"1">>, <<"3">>, <<"1", "1">>, <<"6", "4">>}
    [] s = "repay"    -> {<<"5">>, <<"1", "4">>, <<"1", "5">>}
    [] s = "withdraw" -> {<<"3", "2">>, <<"3", "5">>, <<"3", "3">>}

\* The message of a revert whose reason string is a protocol error code.
Reverted(code) == <<"'">> \o code \o <<"'">>

\* Messages a rejected call may carry: a revert with a code of the script's
\* table, a revert with another code, and an error that carries no code.
FailureMessages(s) ==
  {Reverted(code) : code \in ErrorCodes(s)}
  \cup {Reverted(<<"7">>), <<"t", "i", "m", "e", "o", "u", "t">>}

\* The catch block without its return: the run goes on after the report.
TxFailedNoReturn ==
  IF script = "supply"
    THEN /\ Throw("TransactionFailed", {})
         /\ UNCHANGED out
    ELSE \E message \in FailureMessages(script) :
           /\ out' = out \cup {"Action failed"}
           /\ failure' = [kind    |-> "ActionFailed",
                          names   |-> {},
                          step    |-> pc,
                          message |-> message,
                          raw     |-> message,
                          hints   |-> ErrorHint(script, message)]
           /\ pc' = "time"
           /\ UNCHANGED exitCode

\* The catch block printing only the error-code line, when one matches.
TxFailedHintOnly ==
  IF script = "supply"
    THEN /\ Throw("TransactionFailed", {})
         /\ UNCHANGED out
    ELSE \E message \in FailureMessages(script) :
           /\ out' = out \cup {"Action failed"}
           /\ failure' = [kind    |-> "ActionFailed",
                          names   |-> {},
                          step    |-> pc,
                          message |-> message,
                          raw     |-> IF ErrorHint(script, message) = {}
                                        THEN message ELSE <<>>,
                          hints   |-> ErrorHint(script, message)]
           /\ Return

\* A rejected call or wait(): supply has no try around its calls, the error
\* reaches main().catch; borrow, repay and withdraw catch it, print
\* '... failed!', 'Error:' and the message, the error-code line, and return.
TxFailed ==
  IF script = "supply"
    THEN /\ Throw("TransactionFailed", {})
         /\ UNCHANGED out
    ELSE \E message \in FailureMessages(script) :
           /\ out' = out \cup {"Action failed"}
           /\ failure' = [kind    |-> "ActionFailed",
                          names   |-> {},
                          step    |-> pc,
                          message |-> message,
                          raw     |-> message,
                          hints   |-> ErrorHint(script, message)]
           /\ Return

\* The allowance were a full repay to approve the wallet balance read before.
ApproveAmountPreRead ==
  IF script = "repay"
    THEN (IF amountWei = MaxUint256 THEN userBalance ELSE amountWei)
    ELSE amountWei

\* The allowance the approve call grants.
ApproveAmount ==
  IF script = "repay"
    THEN (IF amountWei = MaxUint256 THEN MaxUint256 ELSE amountWei)
    ELSE amountWei

\* The approve call without the await approveTx.wait() that follows it.
SubmitApproveNoWait ==
  /\ pc = "approve"
  /\ contractCalled' = TRUE
  /\ script \in {"supply", "repay"}
  /\ calls' = Append(calls, [fn |-> "approve", amount |-> ApproveAmount, rateMode |-> 0])
  /\ \/ /\ pending' = "approve"
        /\ pc' = "action"
        /\ UNCHANGED <<out, exitCode, failure>>
     \/ /\ TxFailed
        /\ UNCHANGED pending
  /\ UNCHANGED <<inputs, diagVars, config, userBalance, accountDataBefore, amountWei,
                 hfDisplay, timeAdvanced>>
  /\ UNCHANGED userReserve
  /\ UNCHANGED <<accountData, nothingToDo, report, stale>>

\* token.connect(user1).approve(config.lendingPoolAddress, amount)
SubmitApprove ==
  /\ pc = "approve"
  /\ contractCalled' = TRUE
  /\ script \in {"supply", "repay"}
  /\ calls' = Append(calls, [fn |-> "approve", amount |-> ApproveAmount, rateMode |-> 0])
  /\ \/ /\ pending' = "approve"
        /\ pc' = "approveWait"
        /\ UNCHANGED <<out, exitCode, failure>>
     \/ /\ TxFailed
        /\ UNCHANGED pending
  /\ UNCHANGED <<inputs, diagVars, config, userBalance, accountDataBefore,
                 amountWei, hfDisplay, timeAdvanced>>
  /\ UNCHANGED userReserve
  /\ UNCHANGED <<accountData, nothingToDo, report, stale>>

\* The wait whose rejection is noted and the run goes on to the action call.
SettleApproveContinue ==
  /\ pc = "approveWait"
  /\ contractCalled' = TRUE
  /\ pending' = "none"
  /\ \/ /\ out' = out \cup {"Approved"}
        /\ pc' = "action"
        /\ UNCHANGED <<exitCode, failure>>
     \/ /\ failure' = [NoFailure EXCEPT !.kind = "ActionFailed", !.step = pc]
        /\ pc' = "action"
        /\ UNCHANGED <<out, exitCode>>
  /\ UNCHANGED <<inputs, diagVars, config, userBalance, accountDataBefore,
                 amountWei, calls, hfDisplay, timeAdvanced>>
  /\ UNCHANGED userReserve
  /\ UNCHANGED <<accountData, nothingToDo, report, stale>>

\* await approveTx.wait()
SettleApprove ==
  /\ pc = "approveWait"
  /\ contractCalled' = TRUE
  /\ pending' = "none"
  /\ \/ /\ out' = out \cup {"Approved"}
        /\ pc' = "action"
        /\ UNCHANGED <<exitCode, failure>>
     \/ TxFailed
  /\ UNCHANGED <<inputs, diagVars, config, userBalance, accountDataBefore,
                 amountWei, calls, hfDisplay, timeAdvanced>>
  /\ UNCHANGED userReserve
  /\ UNCHANGED <<accountData, nothingToDo, report, stale>>

\* lendingPool.connect(user1).deposit / borrow / repay / withdraw (...)
SubmitAction ==
  /\ pc = "action"
  /\ contractCalled' = TRUE
  /\ calls' = Append(calls,
       [fn       |-> ActionFn(script),
        amount   |-> amountWei,
        rateMode |-> IF script \in {"borrow", "repay"} THEN config.interestRateMode ELSE 0])
  /\ \/ /\ pending' = ActionFn(script)
        /\ pc' = "actionWait"
        /\ UNCHANGED <<out, exitCode, failure>>
     \/ /\ TxFailed
        /\ UNCHANGED pending
  /\ UNCHANGED <<inputs, diagVars, config, userBalance, accountDataBefore,
                 amountWei, hfDisplay, timeAdvanced>>
  /\ UNCHANGED userReserve
  /\ UNCHANGED <<accountData, nothingToDo, report, stale>>

\* await depositTx.wait() / borrowTx.wait() / repayTx.wait() / withdrawTx.wait()
SettleAction ==
  /\ pc = "actionWait"
  /\ contractCalled' = TRUE
  /\ pending' = "none"
  /\ \/ /\ out' = out \cup {"Action confirmed"}
        /\ pc' = IF script = "supply" THEN "time" ELSE "newBalance"
        /\ UNCHANGED <<exitCode, failure>>
     \/ TxFailed
  /\ UNCHANGED <<inputs, diagVars, config, userBalance, accountDataBefore,
                 amountWei, calls, hfDisplay, timeAdvanced>>
  /\ UNCHANGED userReserve
  /\ UNCHANGED <<accountData, nothingToDo, report, stale>>

\* borrow, repay, withdraw: newBalance read, still inside the try.
NewBalance ==
  /\ pc = "newBalance"
  /\ contractCalled' = TRUE
  /\ \/ /\ pc' = "time"
        /\ UNCHANGED <<out, exitCode, failure>>
     \/ TxFailed
  /\ UNCHANGED <<inputs, diagVars, config, userBalance, accountDataBefore,
                 amountWei, calls, pending, hfDisplay, timeAdvanced>>
  /\ UNCHANGED userReserve
  /\ UNCHANGED <<accountData, nothingToDo, report, stale>>

\* if (isLocal) { evm_increaseTime; evm_mine }
TimeAdvance ==
  /\ pc = "time"
  /\ contractCalled' = TRUE
  /\ timeAdvanced' = isLocalNetwork(env)
  /\ pc' = "summary"
  /\ UNCHANGED <<inputs, diagVars, config, userBalance, accountDataBefore,
                 amountWei, calls, pending, hfDisplay, out, exitCode, failure>>
  /\ UNCHANGED userReserve
  /\ UNCHANGED <<accountData, nothingToDo, report, stale>>

\* The thresholds of the health lines of the final summaries.
LowHealth == parseUnits(<<"1", ".", "5">>, Decimals).wei

GoodHealth == parseUnits(<<"2">>, Decimals).wei

\* borrow: the warning under 'Updated Account Health'.
BorrowReport(after) ==
  IF after.healthFactor < LowHealth THEN {"WARNING: Health factor is low"} ELSE {}

\* repay: 'Health Factor Improvement'.
RepayReport(before, after) ==
  IF after.totalDebtETH = 0
    THEN {"All debt repaid"}
         \cup (IF before.healthFactor < InfiniteThreshold
                THEN {"Previous Health Factor"} ELSE {})
    ELSE (IF before.healthFactor < InfiniteThreshold
             /\ after.healthFactor < InfiniteThreshold
            THEN (IF after.healthFactor > before.healthFactor
                    THEN {"Health factor increased by %"}
                  ELSE IF after.healthFactor = before.healthFactor
                    THEN {"Health factor unchanged"}
                  ELSE {})
            ELSE {})
         \cup (IF after.healthFactor < LowHealth
                  THEN {"WARNING: Health factor still low"}
                ELSE IF after.healthFactor >= GoodHealth
                  THEN {"Healthy position"}
                ELSE {"Moderate health"})

\* withdraw: 'Health Factor Change' and the safety warnings.
WithdrawReport(before, after) ==
  IF before.totalDebtETH > 0
    THEN (IF after.totalDebtETH = 0
            THEN {"Debt fully repaid"}
          ELSE IF before.healthFactor < InfiniteThreshold
                  /\ after.healthFactor < InfiniteThreshold
            THEN (IF after.healthFactor < before.healthFactor
                    THEN {"Health factor decreased by %"}
                         \cup (IF after.healthFactor < LowHealth
                                THEN {"WARNING: Health factor is getting low"} ELSE {})
                    ELSE {"Health factor (unchanged)"})
          ELSE {})
         \cup (IF after.healthFactor < LowHealth /\ after.healthFactor > 0
                  THEN {"WARNING: Low health factor"}
                ELSE IF after.totalDebtETH > 0 /\ after.healthFactor >= GoodHealth
                  THEN {"Healthy position maintained"}
                ELSE {})
    ELSE {"No debt - Safe to withdraw anytime"}

AfterReport(s, before, after) ==
  [site   |-> s,
   before |-> IF s = "borrow" THEN NoAccountData ELSE before,
   after  |-> after,
   lines  |-> CASE s = "borrow"   -> BorrowReport(after)
                [] s = "repay"    -> RepayReport(before, after)
                [] s = "withdraw" -> WithdrawReport(before, after)]

\* The final summary and the completion message.
FinalSummary ==
  /\ pc = "summary"
  /\ contractCalled' = TRUE
  /\ IF config.dataProviderAddress = <<>>
       THEN \/ /\ out' = out \cup {"Final Summary", "Completed"}
               /\ Return
               /\ UNCHANGED <<hfDisplay, report, failure>>
            \/ /\ Throw("ReadFailed", {})
               /\ out' = out \cup {"Final Summary"}
               /\ UNCHANGED <<hfDisplay, report>>
       ELSE /\ \/ /\ out' = out \cup {"Final Summary", "Completed",
                                       "Could not fetch detailed reserve data"}
                  /\ UNCHANGED <<hfDisplay, report>>
               \/ /\ script = "supply"
                  /\ out' = out \cup {"Final Summary", "Completed"}
                  /\ UNCHANGED <<hfDisplay, report>>
               \/ /\ script # "supply"
                  /\ \E accountDataAfter \in AccountDataValues :
                      /\ report' = {AfterReport(script, accountDataBefore, accountDataAfter)}
                      /\ hfDisplay' = hfDisplay \cup
                         {HealthLine(CASE script = "borrow"   -> "borrow-after"
                                       [] script = "repay"    -> "repay-after"
                                       [] script = "withdraw" -> "withdraw-after",
                                     accountDataAfter,
                                     IF script = "borrow" THEN "numeric"
                                     ELSE HealthFactorForm(accountDataAfter.healthFactor))}
                  /\ out' = out \cup {"Final Summary", "Completed"}
            /\ Return
            /\ UNCHANGED failure
  /\ UNCHANGED <<inputs, diagVars, config, userBalance, accountDataBefore,
                 amountWei, calls, pending, timeAdvanced>>
  /\ UNCHANGED userReserve
  /\ UNCHANGED <<accountData, nothingToDo, stale>>

\* -------------------------------------------------------- diagnostic scripts
\* BigNumber shr, and, eq on words given as the set of their 1 bits.
shr(w, n) == {b - n : b \in {x \in w : x >= n}}

and(w, m) == w \cap m

eq(w, v) == w = v

One == {0}

\* The decode with each flag read one bit too low.
decodeOneBitLow(configData) ==
  [isActive |-> eq(and(shr(configData, 55), One), One),
   isFrozen |-> eq(and(shr(configData, 56), One), One)]

\* check-pool-config.ts: const isActive = ..., const isFrozen = ...
decodeCheckPoolConfig(configData) ==
  [isActive |-> eq(and(shr(configData, 56), One), One),
   isFrozen |-> eq(and(shr(configData, 57), One), One)]

\* list-pool-reserves.ts: const isActive = ..., const isFrozen = ...
decodeListPoolReserves(configData) ==
  [isActive |-> eq(and(shr(configData, 56), One), One),
   isFrozen |-> eq(and(shr(configData, 57), One), One)]

DecodedLine(site, configData, flags) ==
  [site |-> site, word |-> configData,
   isActive |-> flags.isActive, isFrozen |-> flags.isFrozen]

\* The addresses a diagnostic script selected, in the shape of Config.
DiagConfig(network, lendingPoolAddress, dataProviderAddress, tokenAddress) ==
  [loaded              |-> TRUE,
   network             |-> network,
   lendingPoolAddress  |-> lendingPoolAddress,
   dataProviderAddress |-> dataProviderAddress,
   tokenAddress        |-> tokenAddress,
   decimals            |-> Decimals,
   amount              |-> Undefined,
   interestRateMode    |-> 0]

\* What the missing-address message of a diagnostic script spells out.
MissingNames(s) ==
  CASE s = "check-balance"      -> {"LENDING_POOL_ADDRESS"}
    [] s = "check-pool-config"  -> {"LENDING_POOL_ADDRESS", "TOKEN_ADDRESS",
                                    "LOCAL_*", "SEPOLIA_*"}
    [] s = "list-pool-reserves" -> {"LENDING_POOL_ADDRESS", "LOCAL_*", "SEPOLIA_*"}

\* check-balance, check-pool-config, list-pool-reserves: the address
\* selection at the top of main() and the missing-address return.
DiagStart ==
  /\ pc = "start"
  /\ script \in {"check-balance", "check-pool-config", "list-pool-reserves"}
  /\ LET network             == Or(env["NETWORK"], <<"localhost">>)
         isLocal             == isLocalNetwork(env)
         lendingPoolAddress  == SelectAddress(env, isLocal, "LENDING_POOL")
         dataProviderAddress == IF script = "check-pool-config" THEN Undefined
                                ELSE SelectAddress(env, isLocal, "DATA_PROVIDER")
         tokenAddress        == IF script = "check-pool-config"
                                  THEN SelectAddress(env, isLocal, "TOKEN")
                                  ELSE Undefined
     IN /\ config' = DiagConfig(network, lendingPoolAddress, dataProviderAddress,
                                tokenAddress)
        /\ IF Falsy(lendingPoolAddress)
              \/ (script = "check-pool-config" /\ Falsy(tokenAddress))
             THEN /\ failure' = [NoFailure EXCEPT !.kind  = "MissingConfiguration",
                                                  !.names = MissingNames(script),
                                                  !.step  = pc]
                  /\ Return
             ELSE /\ pc' = IF script = "check-balance" THEN "signers" ELSE "paused"
                  /\ UNCHANGED <<exitCode, failure>>
  /\ UNCHANGED <<inputs, diagVars, userBalance, accountDataBefore, amountWei, calls,
                 pending, hfDisplay,
                 out, timeAdvanced, contractCalled>>
  /\ UNCHANGED userReserve
  /\ UNCHANGED <<accountData, nothingToDo, report, stale>>

\* check-pool-pause-status: the pool address and getContractAt; the error of
\* an absent address reaches main().catch(console.error), which sets no status.
PauseStatusStart ==
  /\ pc = "start"
  /\ script = "check-pool-pause-status"
  /\ LET poolAddress == env["SEPOLIA_LENDING_POOL_ADDRESS"]
     IN /\ config' = DiagConfig(Undefined, poolAddress, Undefined, Undefined)
        /\ IF Falsy(poolAddress)
             THEN /\ failure' = [NoFailure EXCEPT !.kind = "InvalidAddress", !.step = pc]
                  /\ Return
             ELSE /\ pc' = "paused"
                  /\ UNCHANGED <<exitCode, failure>>
  /\ UNCHANGED <<inputs, diagVars, userBalance, accountDataBefore, amountWei, calls,
                 pending, hfDisplay,
                 out, timeAdvanced, contractCalled>>
  /\ UNCHANGED userReserve
  /\ UNCHANGED <<accountData, nothingToDo, report, stale>>

\* check-balance: network-aware account selection.
CheckBalanceSigners ==
  /\ pc = "signers"
  /\ script = "check-balance"
  /\ \E n \in 0..MaxSigners :
       IF isLocalNetwork(env)
         THEN IF n = 0
                THEN /\ Throw("TypeError", {})
                     /\ UNCHANGED out
                ELSE /\ pc' = "reserves"
                     /\ out' = IF n < 2 THEN out \cup {"Only 1 account available"} ELSE out
                     /\ UNCHANGED <<exitCode, failure>>
         ELSE IF n = 0
                THEN /\ out' = out \cup {"No accounts configured"}
                     /\ Return
                     /\ UNCHANGED failure
                ELSE /\ pc' = "reserves"
                     /\ UNCHANGED <<out, exitCode, failure>>
  /\ UNCHANGED <<inputs, diagVars, config, userBalance, accountDataBefore, amountWei,
                 calls, pending,
                 hfDisplay, timeAdvanced, contractCalled>>
  /\ UNCHANGED userReserve
  /\ UNCHANGED <<accountData, nothingToDo, report, stale>>

\* Largest number of reserves a list read returns.
MaxReserves == 2

\* check-balance: the reserve list, from the data provider when one is
\* configured and answers with a non-empty list, from the pool otherwise.
ReserveList(n, symbol) == [i \in 1..n |-> [symbol |-> symbol]]

\* The reserve list without the second method: a failing data provider ends
\* the run.
CheckBalanceReservesNoFallback ==
  /\ pc = "reserves"
  /\ script = "check-balance"
  /\ contractCalled' = TRUE
  /\ \/ /\ ~Falsy(config.dataProviderAddress)
        /\ \E n \in 1..MaxReserves : reserves' = ReserveList(n, "SYM")
        /\ out' = out \cup {"Found token(s) in the pool"}
        /\ pc' = "balances"
        /\ UNCHANGED exitCode
     \/ /\ ~Falsy(config.dataProviderAddress)
        /\ out' = out \cup {"Could not get reserves from Data Provider"}
        /\ Return
        /\ UNCHANGED reserves
     \/ \E said \in {{}} :
          /\ Falsy(config.dataProviderAddress)
          /\ \/ /\ out' = out \cup said \cup {"Could not get reserves list"}
                /\ Return
                /\ UNCHANGED reserves
             \/ \E n \in 0..MaxReserves :
                  IF n = 0
                    THEN /\ out' = out \cup said \cup {"No reserves found"}
                         /\ Return
                         /\ UNCHANGED reserves
                    ELSE /\ reserves' = ReserveList(n, "???")
                         /\ out' = out \cup said \cup {"Found token(s) in the pool"}
                         /\ pc' = "balances"
                         /\ UNCHANGED exitCode
  /\ UNCHANGED <<inputs, isPoolPaused, decoded, remaining, balances, config,
                 userBalance, accountDataBefore, amountWei, calls, pending, hfDisplay,
                 timeAdvanced, failure, userReserve>>
  /\ UNCHANGED <<accountData, nothingToDo, report, stale>>

\* check-balance: the reserve list, from the data provider or, failing that,
\* from the pool.
CheckBalanceReserves ==
  /\ pc = "reserves"
  /\ script = "check-balance"
  /\ contractCalled' = TRUE
  /\ \/ /\ ~Falsy(config.dataProviderAddress)
        /\ \E n \in 1..MaxReserves : reserves' = ReserveList(n, "SYM")
        /\ out' = out \cup {"Found token(s) in the pool"}
        /\ pc' = "balances"
        /\ UNCHANGED exitCode
     \/ \E said \in SUBSET {"Could not get reserves from Data Provider"} :
          /\ said # {} => ~Falsy(config.dataProviderAddress)
          /\ \/ /\ out' = out \cup said \cup {"Could not get reserves list"}
                /\ Return
                /\ UNCHANGED reserves
             \/ \E n \in 0..MaxReserves :
                  IF n = 0
                    THEN /\ out' = out \cup said \cup {"No reserves found"}
                         /\ Return
                         /\ UNCHANGED reserves
                    ELSE /\ reserves' = ReserveList(n, "???")
                         /\ out' = out \cup said \cup {"Found token(s) in the pool"}
                         /\ pc' = "balances"
                         /\ UNCHANGED exitCode
  /\ UNCHANGED <<inputs, isPoolPaused, decoded, remaining, balances, config,
                 userBalance, accountDataBefore, amountWei, calls, pending, hfDisplay,
                 timeAdvanced, failure, userReserve>>
  /\ UNCHANGED <<accountData, nothingToDo, report, stale>>

\* Quantities a balance read of the loop may return: nothing, or one token.
BalanceValues == {0, Pow10(Decimals)}

\* What the loop got for reserve i: a balance (printed when the total is
\* positive) or the error of the catch block.  aTokenAddressZero and
\* aTokenBalance are what the chain holds, deposited is what the run reports.
BalanceError(i, reserve) ==
  [index |-> i, kind |-> "error", symbol |-> reserve.symbol,
   wallet |-> 0, deposited |-> 0, total |-> 0, shown |-> TRUE,
   aTokenAddressZero |-> FALSE, aTokenBalance |-> 0]

TokenBalance(i, symbol, walletBalance, deposited, aTokenAddressZero, aTokenBalance) ==
  LET totalBalance == walletBalance + deposited
  IN [index |-> i, kind |-> "balance", symbol |-> symbol,
      wallet |-> walletBalance, deposited |-> deposited, total |-> totalBalance,
      shown |-> totalBalance > 0,
      aTokenAddressZero |-> aTokenAddressZero, aTokenBalance |-> aTokenBalance]

\* if (!hasAnyBalance) {...} else {...} after the loop.
BalanceClosing(results) ==
  IF \E i \in DOMAIN results : results[i].kind = "balance" /\ results[i].shown
    THEN {"Balance check complete"}
    ELSE {"No token balances found for this address"}

\* The loop whose catch block ends the run at the first reserve it fails on.
CheckBalanceItemAbort ==
  /\ pc = "balances"
  /\ script = "check-balance"
  /\ contractCalled' = TRUE
  /\ LET i       == Len(balances) + 1
         reserve == reserves[i]
     IN \/ /\ balances' = Append(balances, BalanceError(i, reserve))
           /\ Return
           /\ UNCHANGED out
        \/ /\ \E symbolRead \in BOOLEAN, walletBalance \in BalanceValues,
                 reserveDataRead \in BOOLEAN, aTokenAddressZero \in BOOLEAN,
                 aTokenBalance \in BalanceValues, aTokenRead \in BOOLEAN :
                LET symbol    == IF reserve.symbol = "???" /\ symbolRead
                                   THEN "SYM" ELSE reserve.symbol
                    deposited == IF reserveDataRead /\ ~aTokenAddressZero /\ aTokenRead
                                   THEN aTokenBalance ELSE 0
                IN /\ aTokenAddressZero => aTokenBalance = 0
                   /\ balances' = Append(balances,
                         TokenBalance(i, symbol, walletBalance, deposited,
                                      aTokenAddressZero, aTokenBalance))
           /\ IF Len(balances') = Len(reserves)
                THEN /\ out' = out \cup BalanceClosing(balances')
                     /\ Return
                ELSE UNCHANGED <<out, pc, exitCode>>
  /\ UNCHANGED <<inputs, isPoolPaused, decoded, remaining, reserves, config,
                 userBalance, accountDataBefore, amountWei, calls, pending, hfDisplay,
                 timeAdvanced, failure, userReserve>>
  /\ UNCHANGED <<accountData, nothingToDo, report, stale>>

\* check-balance: one pass of the for loop over the reserves.
CheckBalanceItem ==
  /\ pc = "balances"
  /\ script = "check-balance"
  /\ contractCalled' = TRUE
  /\ LET i       == Len(balances) + 1
         reserve == reserves[i]
     IN \/ balances' = Append(balances, BalanceError(i, reserve))
        \/ \E symbolRead \in BOOLEAN, walletBalance \in BalanceValues,
              reserveDataRead \in BOOLEAN, aTokenAddressZero \in BOOLEAN,
              aTokenBalance \in BalanceValues, aTokenRead \in BOOLEAN :
             LET symbol    == IF reserve.symbol = "???" /\ symbolRead
                                THEN "SYM" ELSE reserve.symbol
                 deposited == IF reserveDataRead /\ ~aTokenAddressZero /\ aTokenRead
                                THEN aTokenBalance ELSE 0
             IN /\ aTokenAddressZero => aTokenBalance = 0
                /\ balances' = Append(balances,
                      TokenBalance(i, symbol, walletBalance, deposited,
                                   aTokenAddressZero, aTokenBalance))
  /\ IF Len(balances') = Len(reserves)
       THEN /\ out' = out \cup BalanceClosing(balances')
            /\ Return
       ELSE UNCHANGED <<out, pc, exitCode>>
  /\ UNCHANGED <<inputs, isPoolPaused, decoded, remaining, reserves, config,
                 userBalance, accountDataBefore, amountWei, calls, pending, hfDisplay,
                 timeAdvanced, failure, userReserve>>
  /\ UNCHANGED <<accountData, nothingToDo, report, stale>>

\* try { isPoolPaused = await pool.paused(); ... } catch { ... }
ReadPaused ==
  /\ pc = "paused"
  /\ contractCalled' = TRUE
  /\ \/ /\ isPoolPaused' = paused
        /\ out' = out \cup {IF paused THEN "Pool is PAUSED" ELSE "Pool is not paused"}
     \/ /\ out' = out \cup {"Could not check pool pause status"}
        /\ UNCHANGED isPoolPaused
  /\ IF script = "check-pool-pause-status"
       THEN Return
       ELSE /\ pc' = IF script = "check-pool-config" THEN "reserve" ELSE "list"
            /\ UNCHANGED exitCode
  /\ UNCHANGED <<inputs, decoded, remaining, config,
                 userBalance, accountDataBefore, amountWei, calls, pending, hfDisplay,
                 timeAdvanced, failure>>
  /\ UNCHANGED userReserve
  /\ UNCHANGED <<reserves, balances>>
  /\ UNCHANGED <<accountData, nothingToDo, report, stale>>

\* Configuration words a reserve read may return.
Words == SUBSET WordBits

\* check-pool-config: getReserveData, the decoded flags and the verdict.
CheckConfigReserve ==
  /\ pc = "reserve"
  /\ script = "check-pool-config"
  /\ \/ /\ out' = out \cup {"ERROR reading reserve data"}
        /\ UNCHANGED decoded
     \/ LET configData == word
            flags      == decodeCheckPoolConfig(configData)
        IN /\ decoded' = decoded \cup {DecodedLine("check-pool-config", configData, flags)}
           /\ out' = out \cup
                (IF aTokenZero THEN {"Token is NOT initialized in this pool"}
                 ELSE IF ~flags.isActive THEN {"Reserve is not active"}
                 ELSE IF flags.isFrozen THEN {"Reserve is frozen"}
                 ELSE {"Reserve is configured correctly",
                       IF isPoolPaused THEN "BUT the pool is PAUSED"
                       ELSE "Pool is active - you should be able to deposit"})
  /\ Return
  /\ UNCHANGED <<inputs, isPoolPaused, remaining, config,
                 userBalance, accountDataBefore, amountWei, calls, pending, hfDisplay,
                 timeAdvanced, failure, contractCalled>>
  /\ UNCHANGED userReserve
  /\ UNCHANGED <<reserves, balances>>
  /\ UNCHANGED <<accountData, nothingToDo, report, stale>>

\* The closing lines of list-pool-reserves once every reserve is printed.
ListClosing(viaProvider) ==
  IF isPoolPaused THEN {"Reserves exist but the pool is PAUSED"}
  ELSE IF viaProvider THEN {"To use one of these tokens, update your .env"}
  ELSE {}

\* list-pool-reserves: the reserve list, from the pool when no data provider
\* is configured, from the data provider otherwise.
ListReserves ==
  /\ pc = "list"
  /\ script = "list-pool-reserves"
  /\ \/ /\ out' = out \cup {"Could not get reserves list"}
        /\ Return
        /\ UNCHANGED remaining
     \/ \E n \in 0..MaxReserves :
          IF n = 0
            THEN /\ out' = out \cup {"No reserves found"}
                 /\ Return
                 /\ UNCHANGED remaining
            ELSE /\ remaining' = n
                 /\ pc' = "item"
                 /\ UNCHANGED <<out, exitCode>>
  /\ UNCHANGED <<inputs, isPoolPaused, decoded, config,
                 userBalance, accountDataBefore, amountWei, calls, pending, hfDisplay,
                 timeAdvanced, failure, contractCalled>>
  /\ UNCHANGED userReserve
  /\ UNCHANGED <<reserves, balances>>
  /\ UNCHANGED <<accountData, nothingToDo, report, stale>>

\* list-pool-reserves: one pass of the for loop over the reserves.
ListItem ==
  /\ pc = "item"
  /\ script = "list-pool-reserves"
  /\ remaining' = remaining - 1
  /\ LET viaProvider == ~Falsy(config.dataProviderAddress)
         closing     == IF remaining = 1 THEN ListClosing(viaProvider) ELSE {}
     IN \/ /\ out' = out \cup {"Could not read reserve"} \cup closing
           /\ UNCHANGED decoded
        \/ /\ viaProvider
           /\ out' = out \cup {"Active / Frozen as the data provider reports"} \cup closing
           /\ UNCHANGED decoded
        \/ /\ ~viaProvider
           /\ \E configData \in Words :
                decoded' = decoded \cup
                  {DecodedLine("list-pool-reserves", configData,
                               decodeListPoolReserves(configData))}
           /\ out' = out \cup closing
  /\ IF remaining = 1
       THEN Return
       ELSE UNCHANGED <<pc, exitCode>>
  /\ UNCHANGED <<inputs, isPoolPaused, config,
                 userBalance, accountDataBefore, amountWei, calls, pending, hfDisplay,
                 timeAdvanced, failure, contractCalled>>
  /\ UNCHANGED userReserve
  /\ UNCHANGED <<reserves, balances>>
  /\ UNCHANGED <<accountData, nothingToDo, report, stale>>

\* The environments and pools of the diagnostic runs (check-balance never
\* calls paused(), so its runs are started against one value of the flag).
InitDiag ==
  /\ script \in DiagScripts
  /\ \E network \in Networks, pool \in RolePatterns, token \in RolePatterns,
        dp \in {"none", "all"} :
       /\ script # "check-pool-config" => token = "all"
       /\ script \in {"check-pool-config", "check-pool-pause-status"} => dp = "none"
       /\ env = MakeEnv(script, network,
                        [LENDING_POOL |-> pool, TOKEN |-> token, DATA_PROVIDER |-> dp],
                        Undefined, Undefined)
  /\ paused \in (IF script = "check-balance" THEN {FALSE} ELSE BOOLEAN)
  /\ IF script = "check-pool-config"
       THEN word \in Words /\ aTokenZero \in BOOLEAN
       ELSE word = {56} /\ aTokenZero = FALSE
  /\ InitRun

Init == InitOp \/ InitDiag

Next ==
  \/ LoadConfig
  \/ GetSigners
  \/ SupplyCheckBalance
  \/ InitialState
  \/ BorrowPrecheck
  \/ RepayPrecheck
  \/ WithdrawReserve
  \/ WithdrawPosition
  \/ HealthBefore
  \/ SubmitApprove
  \/ SettleApprove
  \/ SubmitAction
  \/ SettleAction
  \/ NewBalance
  \/ TimeAdvance
  \/ FinalSummary
  \/ DiagStart
  \/ PauseStatusStart
  \/ CheckBalanceSigners
  \/ CheckBalanceReserves
  \/ CheckBalanceItem
  \/ ReadPaused
  \/ CheckConfigReserve
  \/ ListReserves
  \/ ListItem

Spec == Init /\ [][Next]_vars

\* The steps of a run that do not wait for a transaction to be mined: the
\* local statements and the calls a node answers, with a result or an error.
Answered ==
  \/ LoadConfig
  \/ GetSigners
  \/ SupplyCheckBalance
  \/ InitialState
  \/ BorrowPrecheck
  \/ RepayPrecheck
  \/ WithdrawReserve
  \/ WithdrawPosition
  \/ HealthBefore
  \/ SubmitApprove
  \/ SubmitAction
  \/ NewBalance
  \/ TimeAdvance
  \/ FinalSummary
  \/ DiagStart
  \/ PauseStatusStart
  \/ CheckBalanceSigners
  \/ CheckBalanceReserves
  \/ CheckBalanceItem
  \/ ReadPaused
  \/ CheckConfigReserve
  \/ ListReserves
  \/ ListItem

\* Every answered step is eventually taken; approveTx.wait() and the wait of
\* the action call resolve only when the network mines the transaction, which
\* nothing in the scripts bounds.
SpecLive == Init /\ [][Next]_vars /\ WF_vars(Answered)

\* Another operation on the same account (a second run, a liquidation, a
\* transfer) is mined while this run is between its pre-flight reads and the
\* submission of its action call: the state those reads saw is no longer the
\* state of the chain.  The scripts have no read after this point and before
\* the call, so nothing ever clears the mark.
OtherOperationSettles ==
  /\ script \in OpScripts
  /\ pc \in {"approve", "approveWait", "action"}
  /\ script = "borrow" => accountData.read
  /\ script = "repay" => userReserve.read
  /\ ~stale
  /\ stale' = TRUE
  /\ UNCHANGED <<inputs, diagVars, pc, config, userBalance, accountDataBefore,
                 amountWei, calls, pending, hfDisplay, out, timeAdvanced, exitCode,
                 failure, contractCalled, userReserve, accountData, nothingToDo,
                 report>>

NextRace == Next \/ OtherOperationSettles

SpecRace == Init /\ [][NextRace]_vars


\* ------------------------------------------------------------------ claims
\* The amount a run was asked for, as the environment spells it.
RequestedAmount == Or(env[AmountVar(script)], AmountDefault(script))

\* The request is for the amount zero: unset or empty where that means zero,
\* or a number whose value is 0.
RequestedZero ==
  \/ Falsy(env[AmountVar(script)]) /\ script \in {"repay", "withdraw"}
  \/ /\ parseUnits(RequestedAmount, Decimals).ok
     /\ parseUnits(RequestedAmount, Decimals).wei = 0

ActionCalls == {i \in DOMAIN calls : calls[i].fn # "approve"}

\* C1: in a repay or withdraw run, the amount of the repay/withdraw call is
\* MaxUint256 whenever the requested amount is zero (or unset or empty), and
\* the parsed amount otherwise; the number 0 is never passed for a zero request.
C1_ZeroMeansFullAmount ==
  script \in {"repay", "withdraw"} =>
    \A i \in ActionCalls :
      IF RequestedZero
        THEN calls[i].amount = MaxUint256
        ELSE calls[i].amount = parseUnits(RequestedAmount, Decimals).wei

\* C2: in a supply or borrow run whose requested amount is zero, no approve,
\* deposit or borrow call is ever submitted.
C2_ZeroRejectedLocally ==
  (script \in {"supply", "borrow"} /\ RequestedZero) => calls = <<>>

\* C3: a call is submitted only while no transaction of the run is pending;
\* deposit and repay are submitted only as the second call, after the approve
\* call has settled; borrow and withdraw runs submit no approve.
C3_Submission ==
  calls' # calls =>
    /\ pending = "none"
    /\ calls' = Append(calls, calls'[Len(calls')])
    /\ calls'[Len(calls')].fn \in {"deposit", "repay"} =>
         /\ Len(calls) = 1
         /\ calls[1].fn = "approve"
         /\ "Approved" \in out
    /\ script \in {"borrow", "withdraw"} => calls'[Len(calls')].fn # "approve"

C3_ApproveThenAct == [][C3_Submission]_vars

C3_Witness ==
  /\ Len(calls) = 2
  /\ calls[2].fn \in {"deposit", "repay"}
  /\ pending = calls[2].fn

\* C4: in supply and repay runs the allowance approved is the amount of the
\* deposit/repay call that follows; for a full repay both are MaxUint256.
C4_AllowanceIsActionAmount ==
  (script \in {"supply", "repay"} /\ calls # <<>>) =>
    /\ calls[1].fn = "approve"
    /\ calls[1].amount = amountWei
    /\ Len(calls) >= 2 => calls[2].amount = calls[1].amount
    /\ (script = "repay" /\ RequestedAmount = <<"0">>) =>
         \A i \in DOMAIN calls : calls[i].amount = MaxUint256

C4_Witness ==
  /\ script = "repay"
  /\ RequestedAmount = <<"0">>
  /\ userBalance > 0
  /\ Len(calls) = 2

\* C5: an operation run against a paused pool never submits an approve or a
\* deposit/withdraw/borrow/repay call.
C5_PausedSubmitsNothing ==
  (script \in OpScripts /\ paused) => calls = <<>>

\* C6: a supply run against a reserve whose word has bit 56 clear or bit 57
\* set never submits the approve or the deposit call.
C6_IneligibleReserveSubmitsNothing ==
  (script = "supply" /\ (56 \notin word \/ 57 \in word)) => calls = <<>>

\* C7: every decoded line reports isActive as bit 56 and isFrozen as bit 57 of
\* its word; the two decode sites agree on the word; the zero word decodes to
\* both false.
C7_DecodeBits ==
  \A d \in decoded :
    /\ d.isActive = (56 \in d.word)
    /\ d.isFrozen = (57 \in d.word)
    /\ decodeCheckPoolConfig(d.word) = decodeListPoolReserves(d.word)
    /\ d.word = {} => (~d.isActive /\ ~d.isFrozen)

C7_Witness ==
  \E d \in decoded : d.word = {55, 56, 58} /\ d.isActive /\ ~d.isFrozen


\* The network profile of the run and the prefixed variable it selects.
LocalProfile == env["NETWORK"] \in {Undefined, <<>>, <<"hardhat">>, <<"localhost">>}

Prefixed(role) == IF LocalProfile THEN Local(role) ELSE Sepolia(role)

\* The roles a script resolves, and those it cannot run without.
ResolvedRoles(s) ==
  CASE s \in OpScripts               -> {"LENDING_POOL", "DATA_PROVIDER", "TOKEN"}
    [] s = "check-balance"           -> {"LENDING_POOL", "DATA_PROVIDER"}
    [] s = "list-pool-reserves"      -> {"LENDING_POOL", "DATA_PROVIDER"}
    [] s = "check-pool-config"       -> {"LENDING_POOL", "TOKEN"}
    [] s = "check-pool-pause-status" -> {"LENDING_POOL"}

RequiredRoles(s) == ResolvedRoles(s) \ {"DATA_PROVIDER"}

ResolvedAddress(role) ==
  CASE role = "LENDING_POOL"  -> config.lendingPoolAddress
    [] role = "DATA_PROVIDER" -> config.dataProviderAddress
    [] role = "TOKEN"         -> config.tokenAddress

\* C8: once a script has resolved its addresses, each role it resolves has
\* the value of the network-prefixed variable when that one is set, and the
\* value of the generic variable when only that one is set; the environment
\* is never modified.
C8_ResolutionOrder ==
  config.loaded =>
    \A role \in ResolvedRoles(script) :
      /\ ~Falsy(env[Prefixed(role)]) => ResolvedAddress(role) = env[Prefixed(role)]
      /\ (Falsy(env[Prefixed(role)]) /\ ~Falsy(env[Generic(role)])) =>
           ResolvedAddress(role) = env[Generic(role)]

\* C9: a run in which a required role has neither its prefixed nor its generic
\* variable set makes no contract call and ends with a MissingConfiguration
\* error that names both variables of a missing role.
MissingRoles ==
  {role \in RequiredRoles(script) :
     Falsy(env[Prefixed(role)]) /\ Falsy(env[Generic(role)])}

C9_MissingNamesBoth ==
  MissingRoles # {} =>
    /\ ~contractCalled
    /\ pc = "done" =>
         /\ failure.kind = "MissingConfiguration"
         /\ \E role \in MissingRoles :
              {Prefixed(role), Generic(role)} \subseteq failure.names

\* C10: every health-factor line shows the infinite form exactly when the raw
\* health factor is at or above the infinite-display threshold.
C10_InfiniteAtOrAboveThreshold ==
  \A line \in hfDisplay :
    (line.form = "infinite") <=> (line.healthFactor >= InfiniteThreshold)

\* C11: every health-factor line printed from a snapshot whose total debt is 0
\* shows the infinite form.
C11_NoDebtShownInfinite ==
  \A line \in hfDisplay : line.totalDebtETH = 0 => line.form = "infinite"

\* The after-operation state a run read and reported.
AfterLines ==
  {line \in hfDisplay : line.site \in {"borrow-after", "repay-after", "withdraw-after"}}

AfterReported == AfterLines # {} \/ "Final Summary" \in out

\* C14: in a borrow, repay or withdraw run, once the catch block has reported
\* a failure no after-state is reported and no time is advanced; an after-state
\* is reported only after the action call was confirmed.
C14_ErrorOrAfterSnapshot ==
  script \in {"borrow", "repay", "withdraw"} =>
    /\ failure.kind = "ActionFailed" => (~AfterReported /\ ~timeAdvanced)
    /\ AfterReported => "Action confirmed" \in out

C14_Witness ==
  /\ script = "withdraw"
  /\ failure.kind = "ActionFailed"
  /\ failure.step = "actionWait"
  /\ isLocalNetwork(env)
  /\ config.dataProviderAddress # <<>>
  /\ pc = "done"

\* C15: a supply or repay run whose approve call was rejected, at submission
\* or at settlement, is over with a failure, and its calls hold no deposit or
\* repay.
C15_ApproveFailureEndsRun ==
  (script \in {"supply", "repay"} /\ failure.step \in {"approve", "approveWait"}) =>
    /\ pc = "done"
    /\ failure.kind \in {"TransactionFailed", "ActionFailed"}
    /\ \A i \in DOMAIN calls : calls[i].fn = "approve"

C15_Witness ==
  /\ script = "repay"
  /\ failure.step = "approveWait"
  /\ Len(calls) = 1
  /\ pc = "done"

\* What a run prints when a pre-flight check stops it.
PreflightStops ==
  {"No collateral supplied", "No borrowing capacity", "No debt to repay",
   "No debt of this rate mode", "No tokens deposited", "Insufficient balance"}

\* C16: a run that ends with status 0 reported no failure and was not stopped
\* by a pre-flight check.
C16_ExitZeroOnlyOnSuccess ==
  (pc = "done" /\ exitCode = 0) =>
    /\ failure.kind = "none"
    /\ out \cap PreflightStops = {}

CodeHint(code) ==
  CASE code = <<"1">>      -> "Error code 1"
    [] code = <<"3">>      -> "Error code 3"
    [] code = <<"1", "1">> -> "Error code 11"
    [] code = <<"6", "4">> -> "Error code 64"
    [] code = <<"5">>      -> "Error code 5"
    [] code = <<"1", "4">> -> "Error code 14"
    [] code = <<"1", "5">> -> "Error code 15"
    [] code = <<"3", "2">> -> "Error code 32"
    [] code = <<"3", "5">> -> "Error code 35"
    [] code = <<"3", "3">> -> "Error code 33"

\* C18: a failure whose message is a revert with a code of the script's table
\* gets the error-code line of that code.
C18_CodeClassifiedAsItself ==
  failure.kind = "ActionFailed" =>
    \A code \in ErrorCodes(script) :
      failure.message = Reverted(code) => failure.hints = {CodeHint(code)}

\* C12: every balance the check-balance loop prints has total = wallet +
\* deposited, deposited being the user's aToken balance when the reserve's
\* aToken address is not the zero address, and 0 when it is.
C12_TotalIsWalletPlusDeposited ==
  \A i \in DOMAIN balances :
    (balances[i].kind = "balance" /\ balances[i].shown) =>
      /\ balances[i].total = balances[i].wallet + balances[i].deposited
      /\ balances[i].deposited =
           IF balances[i].aTokenAddressZero THEN 0 ELSE balances[i].aTokenBalance

DebtOfMode(mode) ==
  CASE mode = 1 -> userReserve.currentStableDebt
    [] mode = 2 -> userReserve.currentVariableDebt
    [] OTHER    -> 0

PreflightDebtStops == {"No debt to repay", "No debt of this rate mode"}

\* C20: a repay call carries the configured rate mode, and when the pre-check
\* read the debts, the debt of that rate mode is positive; with stable debt
\* only, rate mode 1 and the full-amount setting, the pre-check lets the run
\* pass and the repay call has amount MaxUint256 and rate mode 1.
C20_PreflightMatchesRateMode ==
  script = "repay" =>
    /\ \A i \in ActionCalls :
         /\ calls[i].rateMode = config.interestRateMode
         /\ userReserve.read => DebtOfMode(calls[i].rateMode) > 0
    /\ ( /\ userReserve.read
         /\ userReserve.currentStableDebt > 0
         /\ userReserve.currentVariableDebt = 0
         /\ env["INTEREST_RATE_MODE"] = <<"1">>
         /\ RequestedAmount = <<"0">> ) =>
           /\ out \cap PreflightDebtStops = {}
           /\ \A i \in ActionCalls :
                calls[i].amount = MaxUint256 /\ calls[i].rateMode = 1

\* C19: a run that has a transaction pending eventually ends.
C19_SubmittedRunEnds == (pending # "none") ~> (pc = "done")

\* C21: the borrow pre-flight stops the run only on zero total collateral or
\* zero available borrow capacity; after a read showing collateral and
\* capacity the run goes on to submit the borrow call whatever the health
\* factor read, the infinite sentinel included (only an amount text that does
\* not parse ends it before the call).
BorrowStopLines == {"No collateral supplied", "No borrowing capacity"}

C21_HealthNeverBlocksBorrow ==
  script = "borrow" =>
    /\ (out \cap BorrowStopLines # {}) =>
         /\ accountData.read
         /\ accountData.totalCollateralETH = 0 \/ accountData.availableBorrowsETH = 0
    /\ (accountData.read /\ accountData.totalCollateralETH > 0
           /\ accountData.availableBorrowsETH > 0) =>
         /\ out \cap BorrowStopLines = {}
         /\ \/ pc = "action"
            \/ failure.kind = "ParseError"
            \/ \E i \in DOMAIN calls : calls[i].fn = "borrow"

C21_Witness ==
  /\ script = "borrow"
  /\ accountData.read
  /\ accountData.totalCollateralETH > 0
  /\ accountData.availableBorrowsETH > 0
  /\ accountData.totalDebtETH = 0
  /\ accountData.healthFactor = MaxUint256
  /\ \E i \in DOMAIN calls : calls[i].fn = "borrow"

\* C22: every snapshot taken after an operation that shows outstanding debt
\* reports exactly one risk band, the one of its health factor: at risk under
\* 1.5, healthy from 2.0, moderate in between, and unconstrained instead from
\* the infinite threshold; the repay, withdraw and borrow reports alike.
RiskBand(hf) ==
  IF hf >= InfiniteThreshold THEN "unconstrained"
  ELSE IF hf < LowHealth THEN "at risk"
  ELSE IF hf >= GoodHealth THEN "healthy"
  ELSE "moderate"

ReportedBands(r) ==
  (IF r.lines \cap {"WARNING: Health factor is low", "WARNING: Health factor still low",
                    "WARNING: Low health factor"} # {}
     THEN {"at risk"} ELSE {})
  \cup (IF r.lines \cap {"Healthy position", "Healthy position maintained"} # {}
          THEN {"healthy"} ELSE {})
  \cup (IF "Moderate health" \in r.lines THEN {"moderate"} ELSE {})
  \cup (IF \E l \in hfDisplay : /\ l.site \in {"borrow-after", "repay-after", "withdraw-after"}
                                 /\ l.form = "infinite"
          THEN {"unconstrained"} ELSE {})

C22_OneRiskBand ==
  \A r \in report :
     r.after.totalDebtETH > 0 => ReportedBands(r) = {RiskBand(r.after.healthFactor)}

\* C23: the repay and withdraw reports give a percentage change of the health
\* factor only when the health factor is under the infinite threshold both
\* before and after, give it for every such pair with the direction of the
\* actual change, and give a qualitative transition when either value is at
\* or above the threshold or no debt is left.
PercentLines == {"Health factor increased by %", "Health factor decreased by %"}

TransitionLines == {"All debt repaid", "Debt fully repaid",
                    "No debt - Safe to withdraw anytime"}

Comparable(r) ==
  /\ r.after.totalDebtETH > 0
  /\ r.before.healthFactor < InfiniteThreshold
  /\ r.after.healthFactor < InfiniteThreshold

C23_SignedChangeOrTransition ==
  \A r \in report :
     r.site \in {"repay", "withdraw"} =>
       /\ (r.lines \cap PercentLines # {}) => Comparable(r)
       /\ (Comparable(r) /\ r.after.healthFactor > r.before.healthFactor) =>
            r.lines \cap PercentLines = {"Health factor increased by %"}
       /\ (Comparable(r) /\ r.after.healthFactor < r.before.healthFactor) =>
            r.lines \cap PercentLines = {"Health factor decreased by %"}
       /\ ~Comparable(r) => r.lines \cap TransitionLines # {}

\* C24: when another operation settles on the user's position between the
\* run's pre-flight check and its submission, the action call is not
\* submitted on the pre-flight snapshot: the state is read again first.
C24_NoSubmitOnStaleSnapshot ==
  stale => ActionCalls = {}

C26_RateModeOneOrTwo ==
  \A i \in DOMAIN calls :
     calls[i].fn \in {"borrow", "repay"} =>
       /\ calls[i].rateMode \in {1, 2}
       /\ env["INTEREST_RATE_MODE"] = Undefined => calls[i].rateMode = 2
       /\ RateModeLabel(config.interestRateMode) = "Stable" => calls[i].rateMode = 1
       /\ RateModeLabel(config.interestRateMode) = "Variable" => calls[i].rateMode = 2
       /\ (calls[i].fn = "repay" /\ userReserve.read) =>
            DebtOfMode(calls[i].rateMode) > 0

\* C27: check-pool-config says 'Pool is active - you should be able to
\* deposit' only when the reserve exists, bit 56 of its configuration is set,
\* bit 57 is clear and the pool is not paused; a reserve that does not exist
\* gets the not-initialized line and no other verdict, whatever its flags.
C27_ActiveVerdictSound ==
  script = "check-pool-config" =>
    /\ "Pool is active - you should be able to deposit" \in out =>
         /\ ~aTokenZero
         /\ 56 \in word
         /\ 57 \notin word
         /\ ~paused
    /\ (aTokenZero /\ decoded # {}) =>
         /\ "Token is NOT initialized in this pool" \in out
         /\ out \cap {"Reserve is not active", "Reserve is frozen",
                      "Reserve is configured correctly"} = {}

\* C28: in check-balance an absent, failing or empty data provider does not
\* stop the run: the reserves then come from the pool's list with the symbol
\* '???', and the run ends without visiting reserves only when the pool's
\* list fails too or no reserve is found; in the operation scripts a run whose
\* data provider is absent or fails is never stopped before its action call
\* for that reason.
ProviderFailedLines ==
  {"Could not fetch account data", "Could not fetch debt data",
   "Could not fetch position data"}

ProviderUnavailable ==
  Falsy(config.dataProviderAddress) \/ out \cap ProviderFailedLines # {}

C28_ProviderIsOptional ==
  /\ script = "check-balance" =>
       /\ ( /\ reserves # <<>>
            /\ \/ Falsy(config.dataProviderAddress)
               \/ "Could not get reserves from Data Provider" \in out ) =>
              \A i \in DOMAIN reserves : reserves[i].symbol = "???"
       /\ (pc = "done" /\ contractCalled /\ reserves = <<>>) =>
              out \cap {"Could not get reserves list", "No reserves found"} # {}
       /\ (pc = "done" /\ reserves # <<>>) => out \cap BalanceClosing(balances) # {}
  /\ (script \in OpScripts /\ config.loaded /\ ProviderUnavailable) =>
       /\ out \cap (BorrowStopLines \cup PreflightDebtStops) = {}
       /\ (pc = "done" /\ failure.kind = "none") =>
            \/ ActionCalls # {}
            \/ "No tokens deposited" \in out
            \/ "Insufficient balance" \in out

C28_Witness ==
  /\ script = "check-balance"
  /\ "Could not get reserves from Data Provider" \in out
  /\ pc = "done"
  /\ Len(reserves) = 2
  /\ reserves[1].symbol = "???"
  /\ "Balance check complete" \in out

\* C29: an operation script prints its final success message only in a run
\* whose action call was submitted and confirmed; a supply run that skipped
\* the deposit for insufficient balance prints no success message and does
\* not advance time.
C29_SuccessOnlyAfterConfirmedAction ==
  script \in OpScripts =>
    /\ "Completed" \in out => (ActionCalls # {} /\ "Action confirmed" \in out)
    /\ "Insufficient balance" \in out => ~timeAdvanced

\* C30: a run whose user has nothing to act on (no debt of the selected rate
\* mode for repay, no collateral or no borrow capacity for borrow, nothing
\* deposited for withdraw) submits no call, with or without a data provider
\* and whether or not the pre-flight read succeeds.
C30_SkipConditionsEffective ==
  (script \in {"repay", "borrow", "withdraw"} /\ nothingToDo = "yes") => calls = <<>>

====
